---- MODULE Spec2Model ----
(***************************************************************************)
(* Model of the CVAT-XML to COCO-keypoints converter (keypoints2coco.py,   *)
(* utils.py).  A run is the three calls of the main block:                 *)
(*     parse_xml_file -> construct_coco_keypoints -> write_coco_file.      *)
(* Attribute values of the XML are strings; a string that the code        *)
(* converts (int(), float(), eval()) is a sequence of one-character        *)
(* strings so that the conversion is computed.  Numbers are integers: the  *)
(* code only adds, subtracts and compares them.  A Python dict is a        *)
(* sequence of [key, val] pairs in insertion order.                        *)
(***************************************************************************)
EXTENDS Integers, Sequences, FiniteSets, TLC

VARIABLES xml, pc, labels, images, annotations, coco, exc, out_file

vars == <<xml, pc, labels, images, annotations, coco, exc, out_file>>

(***************************************************************************)
(* Bounds of the inputs.                                                   *)
(***************************************************************************)
MaxLabels == 2
MaxImages == 2
MaxBoxes == 2
MaxKps == 2

(***************************************************************************)
(* Module constants of keypoints2coco.py.                                  *)
(***************************************************************************)
VALID_CLASS_NAME == <<"Forklift">>
FORKLIFT_CATEGORY_ID == 1

keypoint_labels ==
    << "LFrontWheel", "RFrontWheel", "LBackWheel", "RBackWheel",
       "LBlade", "RBlade",
       "LFrontRoof", "RFrontRoof", "LBackRoof", "RBackRoof" >>

(***************************************************************************)
(* Python built-ins the code relies on.                                    *)
(***************************************************************************)
\* name = v followed by the statements F(name): v is evaluated once.
With(v, F(_)) == CHOOSE y \in { F(x) : x \in {v} } : TRUE

Range(s) == { s[i] : i \in 1..Len(s) }

Digits == {"0", "1", "2", "3", "4", "5", "6", "7", "8", "9"}

DigitVal(c) ==
    CASE c = "0" -> 0 [] c = "1" -> 1 [] c = "2" -> 2 [] c = "3" -> 3
      [] c = "4" -> 4 [] c = "5" -> 5 [] c = "6" -> 6 [] c = "7" -> 7
      [] c = "8" -> 8 [] c = "9" -> 9

IsNumeral(s) == Len(s) > 0 /\ \A i \in 1..Len(s) : s[i] \in Digits

RECURSIVE DecVal(_)
DecVal(s) ==
    IF s = <<>> THEN 0
    ELSE 10 * DecVal(SubSeq(s, 1, Len(s) - 1)) + DigitVal(s[Len(s)])

\* int(s): the value of a decimal numeral, ValueError otherwise.
PyInt(s) ==
    IF IsNumeral(s) THEN [exc |-> "", val |-> DecVal(s)]
    ELSE [exc |-> "ValueError", val |-> 0]

\* float(s) on the numerals the box attributes carry.
PyFloat(s) ==
    IF IsNumeral(s) THEN [exc |-> "", val |-> DecVal(s)]
    ELSE [exc |-> "ValueError", val |-> 0]

\* The fields of s between commas, left to right.
RECURSIVE SplitComma(_, _, _)
SplitComma(s, i, cur) ==
    IF i > Len(s) THEN <<cur>>
    ELSE IF s[i] = "," THEN <<cur>> \o SplitComma(s, i + 1, <<>>)
    ELSE SplitComma(s, i + 1, Append(cur, s[i]))

\* eval('(' + s + ')'): "" gives the empty tuple, one numeral gives a number
\* (the parentheses only group), numerals separated by commas (a trailing
\* comma allowed) give a tuple, anything else is a SyntaxError.
EvalFields(fields) ==
    LET n == Len(fields)
        body == IF n > 1 /\ fields[n] = <<>> THEN SubSeq(fields, 1, n - 1)
                ELSE fields
    IN  IF \E i \in 1..Len(body) : ~IsNumeral(body[i])
        THEN [exc |-> "SyntaxError", kind |-> "none", val |-> <<>>]
        ELSE IF n = 1
        THEN [exc |-> "", kind |-> "number", val |-> <<DecVal(body[1])>>]
        ELSE [exc |-> "", kind |-> "tuple",
              val |-> [i \in 1..Len(body) |-> DecVal(body[i])]]

PyEvalParen(s) ==
    IF s = <<>> THEN [exc |-> "", kind |-> "tuple", val |-> <<>>]
    ELSE With(SplitComma(s, 1, <<>>), EvalFields)

\* list.index(x): zero-based position of the first x, ValueError if absent.
PyIndex(lst, x) ==
    IF \E i \in 1..Len(lst) : lst[i] = x
    THEN [exc |-> "",
          val |-> (CHOOSE i \in 1..Len(lst) :
                      lst[i] = x /\ \A j \in 1..(i - 1) : lst[j] # x) - 1]
    ELSE [exc |-> "ValueError", val |-> 0]

Min(a, b) == IF a < b THEN a ELSE b
Max(a, b) == IF a > b THEN a ELSE b

\* lst[lo:hi] = vals for 0 <= lo, hi (zero-based, hi exclusive), with the
\* clamping of a Python slice: the list may grow or shrink.
PySliceAssign(lst, lo, hi, vals) ==
    LET l == Min(lo, Len(lst))
        h == Max(Min(hi, Len(lst)), l)
    IN  SubSeq(lst, 1, l) \o vals \o SubSeq(lst, h + 1, Len(lst))

\* dict operations, insertion order kept; assigning to an existing key
\* replaces its value in place.
DictKeys(d) == [i \in 1..Len(d) |-> d[i].key]
DictHas(d, k) == \E i \in 1..Len(d) : d[i].key = k
DictGet(d, k) == d[CHOOSE i \in 1..Len(d) : d[i].key = k].val
DictSet(d, k, v) ==
    IF DictHas(d, k)
    THEN [i \in 1..Len(d) |-> IF d[i].key = k THEN [key |-> k, val |-> v] ELSE d[i]]
    ELSE Append(d, [key |-> k, val |-> v])

(***************************************************************************)
(* parse_xml_file                                                          *)
(***************************************************************************)
\* labels.append(xml_label.text) for every <label> that has a <name>.
RECURSIVE CollectLabels(_, _)
CollectLabels(xml_labels, i) ==
    IF i > Len(xml_labels) THEN <<>>
    ELSE (IF xml_labels[i].has_name THEN <<xml_labels[i].name>> ELSE <<>>)
         \o CollectLabels(xml_labels, i + 1)

\* The children of one <image>: boxes and points in document order.
NewAnnotationEntry(xml_image) ==
    [bboxes |-> xml_image.boxes, keypoints |-> xml_image.points]

\* Mutant: the children of an element are added to the entry of its id.
StoreAnnotationsMerged(anns, image_id, xml_image) ==
    IF DictHas(anns, image_id)
    THEN DictSet(anns, image_id,
                 [bboxes |-> DictGet(anns, image_id).bboxes \o xml_image.boxes,
                  keypoints |-> DictGet(anns, image_id).keypoints \o xml_image.points])
    ELSE DictSet(anns, image_id, NewAnnotationEntry(xml_image))

\* annotations[image_id] = {...} filled from the element's children: the
\* entry of an id seen before is replaced.
StoreAnnotations(anns, image_id, xml_image) ==
    DictSet(anns, image_id, NewAnnotationEntry(xml_image))

\* The loop over root.findall('.//image').
RECURSIVE ParseImages(_, _, _, _)
ParseImages(xml_images, i, imgs, anns) ==
    IF i > Len(xml_images) THEN [exc |-> "", images |-> imgs, annotations |-> anns]
    ELSE LET xml_image == xml_images[i]
             id == PyInt(xml_image.attrib.id)
         IN  IF id.exc # ""
             THEN [exc |-> id.exc, images |-> imgs, annotations |-> anns]
             ELSE ParseImages(xml_images, i + 1,
                              DictSet(imgs, id.val, xml_image.attrib),
                              StoreAnnotations(anns, id.val, xml_image))

\* ret = "empty" is the {} of the missing-file branch, "tuple" the triple.
parse_xml_file(doc) ==
    IF ~doc.isfile
    THEN [exc |-> "", ret |-> "empty", labels |-> <<>>, images |-> <<>>, annotations |-> <<>>]
    ELSE IF ~doc.wellformed
    THEN [exc |-> "ParseError", ret |-> "none", labels |-> <<>>, images |-> <<>>, annotations |-> <<>>]
    ELSE IF ~doc.has_labels
    THEN [exc |-> "TypeError", ret |-> "none", labels |-> <<>>, images |-> <<>>, annotations |-> <<>>]
    ELSE LET r == ParseImages(doc.images, 1, <<>>, <<>>)
         IN  IF r.exc # ""
             THEN [exc |-> r.exc, ret |-> "none", labels |-> <<>>, images |-> <<>>, annotations |-> <<>>]
             ELSE [exc |-> "", ret |-> "tuple", labels |-> CollectLabels(doc.labels, 1),
                   images |-> r.images, annotations |-> r.annotations]

(***************************************************************************)
(* construct_coco_keypoints                                                *)
(***************************************************************************)
\* Mutant: ids reassigned densely, in order of emission.
CategoryIdDense(i, n_emitted) == n_emitted

CategoryId(i, n_emitted) == i

\* for i, cat in enumerate(labels): i is zero-based.
RECURSIVE Categories(_, _, _)
Categories(lbls, i, acc) ==
    IF i >= Len(lbls) THEN acc
    ELSE LET cat == lbls[i + 1]
         IN  IF cat \notin Range(VALID_CLASS_NAME)
             THEN Categories(lbls, i + 1, acc)
             ELSE Categories(lbls, i + 1,
                     Append(acc, [id |-> CategoryId(i, Len(acc)), name |-> cat,
                                  keypoints |-> keypoint_labels,
                                  skeleton |-> <<>>]))

CocoImageOf(imgs, idx) ==
    LET item == DictGet(imgs, idx)
    IN  [file_name |-> item.name, height |-> item.height,
         width |-> item.width, id |-> idx]

\* Mutant: only the images that have boxes get an entry.
CocoImagesWithBoxes(imgs, anns) ==
    LET keep == { k \in 1..Len(imgs) : Len(DictGet(anns, imgs[k].key).bboxes) > 0 }
        nth(n) == CHOOSE k \in keep : Cardinality({ m \in keep : m < k }) = n - 1
    IN  [n \in 1..Cardinality(keep) |-> CocoImageOf(imgs, imgs[nth(n)].key)]

\* for idx in image_ids: coco_images.append(coco_image)
CocoImages(imgs, anns) ==
    [k \in 1..Len(imgs) |-> CocoImageOf(imgs, imgs[k].key)]

ZeroKeypoints == [i \in 1..30 |-> 0]

\* Mutant: a visible keypoint gets the code of "not in image".
VisibilityZero(occluded) == IF occluded = "1" THEN 1 ELSE 0

Visibility(occluded) == IF occluded = "1" THEN 1 ELSE 2

\* Mutant: the position taken as one-based.
KeypointIndexOneBased(label_pos) == (label_pos + 1) * 3

KeypointIndex(label_pos) == label_pos * 3

\* Mutant: the right and bottom sides excluded.
is_inside_box_strict(point, box) ==
    IF point.kind = "number" THEN "TypeError"
    ELSE IF Len(point.val) < 1 THEN "IndexError"
    ELSE IF ~(point.val[1] >= box[1] /\ point.val[1] < box[3]) THEN "False"
    ELSE IF Len(point.val) < 2 THEN "IndexError"
    ELSE IF point.val[2] >= box[2] /\ point.val[2] < box[4] THEN "True"
    ELSE "False"

\* is_inside_box(point, box) with box = [x1, y1, x2, y2]; the conjunction is
\* evaluated left to right, so point[1] is read only when the x test passed.
is_inside_box(point, box) ==
    IF point.kind = "number" THEN "TypeError"
    ELSE IF Len(point.val) < 1 THEN "IndexError"
    ELSE IF ~(point.val[1] >= box[1] /\ point.val[1] <= box[3]) THEN "False"
    ELSE IF Len(point.val) < 2 THEN "IndexError"
    ELSE IF point.val[2] >= box[2] /\ point.val[2] <= box[4] THEN "True"
    ELSE "False"

\* One pass of the loop over xml_keypoints for one box.
KeypointStep(keypoints, xml_keypoint, box) ==
    LET p_label == xml_keypoint.label
        p_visibility == Visibility(xml_keypoint.occluded)
    IN  With(PyEvalParen(xml_keypoint.points), LAMBDA p :
          IF p.exc # "" THEN [exc |-> p.exc, keypoints |-> keypoints]
          ELSE With(PyIndex(keypoint_labels, p_label), LAMBDA pos :
            IF pos.exc # "" THEN [exc |-> pos.exc, keypoints |-> keypoints]
            ELSE LET keypoint_index == KeypointIndex(pos.val)
                 IN  With(is_inside_box(p, box), LAMBDA inside :
                       IF inside \notin {"True", "False"}
                       THEN [exc |-> inside, keypoints |-> keypoints]
                       ELSE IF inside = "True"
                       THEN [exc |-> "",
                             keypoints |-> PySliceAssign(keypoints, keypoint_index,
                                                         keypoint_index + 3,
                                                         <<p.val[1], p.val[2], p_visibility>>)]
                       ELSE [exc |-> "", keypoints |-> keypoints])))

RECURSIVE KeypointLoop(_, _, _, _)
KeypointLoop(keypoints, xml_keypoints, j, box) ==
    IF j > Len(xml_keypoints) THEN [exc |-> "", keypoints |-> keypoints]
    ELSE With(KeypointStep(keypoints, xml_keypoints[j], box), LAMBDA r :
           IF r.exc # "" THEN r
           ELSE KeypointLoop(r.keypoints, xml_keypoints, j + 1, box))

NextAnnotationIndex(annotation_index) == annotation_index + 1

\* The body of the loop over xml_boxes for one box.
BoxStep(idx, xml_box, xml_keypoints, annotation_index) ==
    With(<<PyFloat(xml_box.xtl).val, PyFloat(xml_box.ytl).val,
           PyFloat(xml_box.xbr).val, PyFloat(xml_box.ybr).val>>, LAMBDA c :
      LET x1 == c[1]
          y1 == c[2]
          x2 == c[3]
          y2 == c[4]
      IN  With(KeypointLoop(ZeroKeypoints, xml_keypoints, 1, <<x1, y1, x2, y2>>), LAMBDA r :
            [exc |-> r.exc,
             coco_box |-> [segmentation |-> <<>>, num_keypoints |-> 10, area |-> 0,
                           iscrowd |-> 0, keypoints |-> r.keypoints, image_id |-> idx,
                           bbox |-> <<x1, y1, x2 - x1, y2 - y1>>,
                           category_id |-> FORKLIFT_CATEGORY_ID,
                           id |-> annotation_index]]))

RECURSIVE BoxLoop(_, _, _, _, _, _)
BoxLoop(idx, xml_boxes, b, xml_keypoints, annotation_index, acc) ==
    IF b > Len(xml_boxes)
    THEN [exc |-> "", annotation_index |-> annotation_index, coco_annotations |-> acc]
    ELSE With(NextAnnotationIndex(annotation_index), LAMBDA n :
           With(BoxStep(idx, xml_boxes[b], xml_keypoints, n), LAMBDA r :
             IF r.exc # ""
             THEN [exc |-> r.exc, annotation_index |-> n, coco_annotations |-> acc]
             ELSE BoxLoop(idx, xml_boxes, b + 1, xml_keypoints, n, Append(acc, r.coco_box))))

\* Mutant: the annotation index restarts with every image.
RECURSIVE ImageLoopRestart(_, _, _, _, _)
ImageLoopRestart(image_ids, k, anns, annotation_index, acc) ==
    IF k > Len(image_ids) THEN [exc |-> "", coco_annotations |-> acc]
    ELSE LET idx == image_ids[k]
             entry == DictGet(anns, idx)
         IN  With(BoxLoop(idx, entry.bboxes, 1, entry.keypoints, 0, acc), LAMBDA r :
               IF r.exc # "" THEN [exc |-> r.exc, coco_annotations |-> acc]
               ELSE ImageLoopRestart(image_ids, k + 1, anns, r.annotation_index, r.coco_annotations))

\* The loop over image_ids that fills coco_annotations.
RECURSIVE ImageLoop(_, _, _, _, _)
ImageLoop(image_ids, k, anns, annotation_index, acc) ==
    IF k > Len(image_ids) THEN [exc |-> "", coco_annotations |-> acc]
    ELSE LET idx == image_ids[k]
             entry == DictGet(anns, idx)
         IN  With(BoxLoop(idx, entry.bboxes, 1, entry.keypoints, annotation_index, acc), LAMBDA r :
               IF r.exc # "" THEN [exc |-> r.exc, coco_annotations |-> acc]
               ELSE ImageLoop(image_ids, k + 1, anns, r.annotation_index, r.coco_annotations))

\* The info block without its two clock fields.
CocoInfo ==
    [description |-> "COCO 2017 Dataset", url |-> "", version |-> "1.0",
     contributor |-> "COCO Consortium"]

EmptyCoco ==
    [info |-> CocoInfo, categories |-> <<>>, licenses |-> "",
     images |-> <<>>, annotations |-> <<>>]

construct_coco_keypoints(lbls, imgs, anns) ==
    With(ImageLoop(DictKeys(imgs), 1, anns, 0, <<>>), LAMBDA r :
      IF r.exc # "" THEN [exc |-> r.exc, coco |-> EmptyCoco]
      ELSE [exc |-> "",
            coco |-> [info |-> CocoInfo,
                      categories |-> Categories(lbls, 0, <<>>),
                      licenses |-> "",
                      images |-> CocoImages(imgs, anns),
                      annotations |-> r.coco_annotations]])

\* write_coco_file: json.dump(data, f) into the opened output path.
write_coco_file(files, data) == Append(files, data)

(***************************************************************************)
(* The input documents.                                                    *)
(***************************************************************************)
SeqsUpTo(S, n) == UNION { [1..m -> S] : m \in 0..n }

Str1 == <<"1">>
Str2 == <<"2">>

Box(lbl, xtl, ytl, xbr, ybr) ==
    [label |-> lbl, occluded |-> "0",
     xtl |-> <<xtl>>, ytl |-> <<ytl>>, xbr |-> <<xbr>>, ybr |-> <<ybr>>]

BoxA == Box("Forklift", "1", "1", "2", "2")
BoxB == Box("Pallet", "2", "2", "3", "3")

Points(lbl, occ, pts) == [label |-> lbl, occluded |-> occ, points |-> pts]

\* Corners and edges of BoxA, and the points one unit outside each side.
GeomPointStrings ==
    { <<"1", ",", "1">>, <<"2", ",", "2">>,
      <<"0", ",", "1">>, <<"3", ",", "2">>,
      <<"1", ",", "0">>, <<"2", ",", "3">> }

GeomPoints ==
    { Points(l[1], l[2], s) :
        l \in {<<"LFrontWheel", "0">>, <<"RBackRoof", "1">>}, s \in GeomPointStrings }

KpIn == Points("LFrontWheel", "1", <<"1", ",", "1">>)
KpUnknown == Points("Tail", "0", <<"1", ",", "1">>)

\* Point strings that are not two numbers.
BadPoints ==
    { Points("LBlade", "0", <<"1", ";", "1">>),
      Points("LBlade", "0", <<"1">>),
      Points("LBlade", "0", <<"1", ",", "1", ",", "1">>),
      Points("LBlade", "0", <<"0", ",">>),
      KpUnknown }

ImageAttrib(id) == [id |-> id, name |-> "frame.jpg", width |-> "640", height |-> "480"]

Image(id, boxes, points) == [attrib |-> ImageAttrib(id), boxes |-> boxes, points |-> points]

Label(name) == [has_name |-> TRUE, name |-> name]
LabelNoName == [has_name |-> FALSE, name |-> ""]

Doc(isfile, wellformed, has_labels, lbls, imgs) ==
    [isfile |-> isfile, wellformed |-> wellformed, has_labels |-> has_labels,
     labels |-> lbls, images |-> imgs]

\* One image with boxes and keypoints around them.
GeomDocs ==
    { Doc(TRUE, TRUE, TRUE, <<Label("Pallet"), Label("Forklift")>>, <<Image(Str1, bs, ks)>>) :
        bs \in SeqsUpTo({BoxA, BoxB}, MaxBoxes), ks \in SeqsUpTo(GeomPoints, MaxKps) }

\* Several images, ids possibly repeated, images without boxes.
MultiImages ==
    { Image(id, bs, ks) :
        id \in {Str1, Str2}, bs \in SeqsUpTo({BoxA}, MaxBoxes),
        ks \in {<<>>, <<KpIn>>, <<KpUnknown>>} }

MultiDocs ==
    { Doc(TRUE, TRUE, TRUE, <<Label("Forklift")>>, imgs) :
        imgs \in SeqsUpTo(MultiImages, MaxImages) }

\* Label vocabularies.
LabelDocs ==
    { Doc(TRUE, TRUE, TRUE, ls, imgs) :
        ls \in SeqsUpTo({Label("Forklift"), Label("Pallet"), LabelNoName}, MaxLabels),
        imgs \in {<<>>} \cup { <<Image(Str1, bs, <<>>)>> : bs \in SeqsUpTo({BoxA, BoxB}, MaxBoxes) } }

\* Missing file, malformed document, missing <labels>, bad ids and points.
ErrorDocs ==
    { Doc(FALSE, FALSE, FALSE, <<>>, <<>>),
      Doc(TRUE, FALSE, FALSE, <<>>, <<>>),
      Doc(TRUE, TRUE, FALSE, <<>>, <<>>) }
    \cup
    { Doc(TRUE, TRUE, TRUE, <<Label("Forklift")>>, <<Image(id, bs, ks)>>) :
        id \in {Str1, <<"x">>}, bs \in SeqsUpTo({BoxA}, MaxBoxes),
        ks \in SeqsUpTo(BadPoints, MaxKps) }

Docs == GeomDocs \cup MultiDocs \cup LabelDocs \cup ErrorDocs

(***************************************************************************)
(* The run: the main block, one action per call.                          *)
(***************************************************************************)
Init ==
    /\ xml \in Docs
    /\ pc = "start"
    /\ labels = <<>>
    /\ images = <<>>
    /\ annotations = <<>>
    /\ coco = EmptyCoco
    /\ exc = [at |-> "", kind |-> ""]
    /\ out_file = <<>>

\* labels, images, annotations = parse_xml_file(xml_path)
CallParseXmlFile ==
    /\ pc = "start"
    /\ \E r \in {parse_xml_file(xml)} :
           IF r.exc # ""
           THEN /\ pc' = "crashed"
                /\ exc' = [at |-> "parse_xml_file", kind |-> r.exc]
                /\ UNCHANGED <<labels, images, annotations>>
           ELSE IF r.ret = "empty"
           THEN \* unpacking {} into three names
                /\ pc' = "crashed"
                /\ exc' = [at |-> "main", kind |-> "ValueError"]
                /\ UNCHANGED <<labels, images, annotations>>
           ELSE /\ pc' = "parsed"
                /\ labels' = r.labels
                /\ images' = r.images
                /\ annotations' = r.annotations
                /\ UNCHANGED exc
    /\ UNCHANGED <<xml, coco, out_file>>

\* coco = construct_coco_keypoints(dataset_name, labels, images, annotations)
CallConstructCocoKeypoints ==
    /\ pc = "parsed"
    /\ \E r \in {construct_coco_keypoints(labels, images, annotations)} :
           IF r.exc # ""
           THEN /\ pc' = "crashed"
                /\ exc' = [at |-> "construct_coco_keypoints", kind |-> r.exc]
                /\ UNCHANGED coco
           ELSE /\ pc' = "built"
                /\ coco' = r.coco
                /\ UNCHANGED exc
    /\ UNCHANGED <<xml, labels, images, annotations, out_file>>

\* write_coco_file(coco, coco_path)
CallWriteCocoFile ==
    /\ pc = "built"
    /\ out_file' = write_coco_file(out_file, coco)
    /\ pc' = "written"
    /\ UNCHANGED <<xml, labels, images, annotations, coco, exc>>

Next == CallParseXmlFile \/ CallConstructCocoKeypoints \/ CallWriteCocoFile

Spec == Init /\ [][Next]_vars

TypeOK ==
    /\ pc \in {"start", "parsed", "built", "written", "crashed"}
    /\ Len(out_file) <= 1

(***************************************************************************)
(* Vocabulary of the properties, stated on the inputs and the document.    *)
(***************************************************************************)
Built == pc \in {"built", "written"}

AfterConstruct == Built \/ (pc = "crashed" /\ exc.at = "construct_coco_keypoints")

\* The boxes in visiting order: images in the order of the image mapping,
\* boxes in encounter order within each image.
RECURSIVE VisitFrom(_)
VisitFrom(k) ==
    IF k > Len(images) THEN <<>>
    ELSE LET entry == DictGet(annotations, images[k].key)
         IN  [b \in 1..Len(entry.bboxes) |->
                 [image_id |-> images[k].key, box |-> entry.bboxes[b],
                  keypoints |-> entry.keypoints]]
             \o VisitFrom(k + 1)

Visited == VisitFrom(1)

NumPaired == Min(Len(coco.annotations), Len(Visited))

Num(s) == DecVal(s)

HasXY(kp) ==
    LET p == PyEvalParen(kp.points)
    IN  p.exc = "" /\ p.kind = "tuple" /\ Len(p.val) >= 2

TwoNumbers(kp) ==
    LET p == PyEvalParen(kp.points)
    IN  p.exc = "" /\ p.kind = "tuple" /\ Len(p.val) = 2

X(kp) == PyEvalParen(kp.points).val[1]
Y(kp) == PyEvalParen(kp.points).val[2]

KnownLabel(kp) == kp.label \in Range(keypoint_labels)

\* The point lies in the rectangle, the four sides included.
Within(kp, box) ==
    /\ HasXY(kp)
    /\ Num(box.xtl) <= X(kp) /\ X(kp) <= Num(box.xbr)
    /\ Num(box.ytl) <= Y(kp) /\ Y(kp) <= Num(box.ybr)

TripleOf(kp) == <<X(kp), Y(kp), IF kp.occluded = "1" THEN 1 ELSE 2>>

\* The triple of the i-th name (i = 1..10) of an annotation.
Slot(ann, i) ==
    IF Len(ann.keypoints) >= 3 * i
    THEN SubSeq(ann.keypoints, 3 * i - 2, 3 * i)
    ELSE <<>>

SlotOfLabel(ann, lbl) ==
    Slot(ann, CHOOSE i \in 1..Len(keypoint_labels) : keypoint_labels[i] = lbl)

Appears(kp, ann) ==
    KnownLabel(kp) /\ HasXY(kp) /\ SlotOfLabel(ann, kp.label) = TripleOf(kp)

\* Positions of the records of kps with label lbl that lie within box.
WithinOfLabel(kps, lbl, box) ==
    { j \in 1..Len(kps) : kps[j].label = lbl /\ Within(kps[j], box) }

SetMax(S) == CHOOSE m \in S : \A n \in S : n <= m

(***************************************************************************)
(* C1.  The annotations of a returned document carry the ids 1..N in       *)
(* visiting order: the k-th box visited (images in the order of the image  *)
(* mapping, boxes in encounter order) is the k-th annotation and has id k, *)
(* N being the total number of boxes.                                      *)
(***************************************************************************)
C1_IdsSequential ==
    Built =>
        /\ Len(coco.annotations) = Len(Visited)
        /\ \A k \in 1..Len(coco.annotations) :
              /\ coco.annotations[k].id = k
              /\ k <= Len(Visited) =>
                    /\ coco.annotations[k].image_id = Visited[k].image_id
                    /\ coco.annotations[k].bbox =
                          << Num(Visited[k].box.xtl), Num(Visited[k].box.ytl),
                             Num(Visited[k].box.xbr) - Num(Visited[k].box.xtl),
                             Num(Visited[k].box.ybr) - Num(Visited[k].box.ytl) >>

C1_Witness ==
    /\ Built
    /\ Len(coco.annotations) >= 3
    /\ \E a, b \in 1..Len(coco.annotations) :
          a < b /\ coco.annotations[a].image_id # coco.annotations[b].image_id
    /\ \E a, b \in 1..Len(coco.annotations) :
          a < b /\ coco.annotations[a].image_id = coco.annotations[b].image_id

(***************************************************************************)
(* C2 as stated.  A keypoint record's triple is at the slot of its label   *)
(* in the annotation of a box of its image iff its point lies within the   *)
(* box, the four sides included.                                           *)
(***************************************************************************)
C2_AppearsIffWithin ==
    Built =>
        \A k \in 1..NumPaired :
            \A j \in 1..Len(Visited[k].keypoints) :
                Appears(Visited[k].keypoints[j], coco.annotations[k])
                    <=> Within(Visited[k].keypoints[j], Visited[k].box)

(***************************************************************************)
(* C2 amended.  A keypoint record's triple is at the slot of its label in  *)
(* the annotation of a box of its image iff its point lies within the box  *)
(* (sides included) and the last record of that label of the image lying   *)
(* within the box carries the same triple: a later record of the same      *)
(* label within the box overwrites an earlier one.  A keypoint with no     *)
(* containing box is in no annotation of its image.                        *)
(***************************************************************************)
C2_AppearsIffLastWithin ==
    Built =>
        \A k \in 1..NumPaired :
            LET kps == Visited[k].keypoints
                box == Visited[k].box
            IN  \A j \in 1..Len(kps) :
                    Appears(kps[j], coco.annotations[k])
                        <=> /\ Within(kps[j], box)
                            /\ TripleOf(kps[SetMax(WithinOfLabel(kps, kps[j].label, box))])
                                   = TripleOf(kps[j])

\* A point on a side of the box is written, one a unit outside is not.
C2_Witness ==
    /\ Built
    /\ \E k \in 1..NumPaired :
          LET kps == Visited[k].keypoints
              box == Visited[k].box
          IN  /\ \E j \in 1..Len(kps) :
                    /\ Appears(kps[j], coco.annotations[k])
                    /\ X(kps[j]) = Num(box.xbr) /\ Y(kps[j]) = Num(box.ybr)
              /\ \E j \in 1..Len(kps) :
                    /\ ~Appears(kps[j], coco.annotations[k])
                    /\ X(kps[j]) = Num(box.xbr) + 1

(***************************************************************************)
(* C3.  Every annotation's keypoints array has exactly 30 elements; the    *)
(* triple of the i-th name is (0, 0, 0) when no record of that name lies   *)
(* within the box, and otherwise the triple of a record of that name.      *)
(***************************************************************************)
C3_ThirtySlots ==
    Built =>
        \A k \in 1..NumPaired :
            LET kps == Visited[k].keypoints
                box == Visited[k].box
                ann == coco.annotations[k]
            IN  /\ Len(ann.keypoints) = 30
                /\ \A i \in 1..Len(keypoint_labels) :
                      IF WithinOfLabel(kps, keypoint_labels[i], box) = {}
                      THEN Slot(ann, i) = <<0, 0, 0>>
                      ELSE \E j \in WithinOfLabel(kps, keypoint_labels[i], box) :
                              Slot(ann, i) = TripleOf(kps[j])

\* Two slot writes, one of them into the last slot, the others left zero.
C3_Witness ==
    /\ Built
    /\ \E k \in 1..NumPaired :
          /\ Slot(coco.annotations[k], 10) # <<0, 0, 0>>
          /\ Slot(coco.annotations[k], 1) # <<0, 0, 0>>
          /\ Slot(coco.annotations[k], 2) = <<0, 0, 0>>
          /\ Len(coco.annotations[k].keypoints) = 30

(***************************************************************************)
(* C4.  The categories are exactly the labels equal to the recognized      *)
(* class name, one record each, and the id of a record is the zero-based   *)
(* position of its label in the label list.                                *)
(***************************************************************************)
C4_CategoryIdIsPosition ==
    Built =>
        LET cats == coco.categories
            pos == { i \in 0..(Len(labels) - 1) : labels[i + 1] = "Forklift" }
        IN  /\ Len(cats) = Cardinality(pos)
            /\ { cats[c].id : c \in 1..Len(cats) } = pos
            /\ \A c \in 1..Len(cats) :
                  /\ cats[c].name = "Forklift"
                  /\ cats[c].id \in 0..(Len(labels) - 1)
                  /\ labels[cats[c].id + 1] = cats[c].name

\* The recognized label is preceded by another one.
C4_Witness ==
    /\ Built
    /\ Len(labels) >= 2
    /\ labels[1] # "Forklift"
    /\ \E c \in 1..Len(coco.categories) : coco.categories[c].id = 1

(***************************************************************************)
(* C5.  Every image id of the image mapping has exactly one entry in       *)
(* images, and as many annotations as the image has boxes: none for an     *)
(* image without boxes, whatever keypoint records it has.                  *)
(***************************************************************************)
C5_OneEntryPerImage ==
    Built =>
        /\ Len(coco.images) = Len(images)
        /\ \A m \in 1..Len(images) :
              LET key == images[m].key
              IN  /\ Cardinality({ n \in 1..Len(coco.images) : coco.images[n].id = key }) = 1
                  /\ Cardinality({ a \in 1..Len(coco.annotations) :
                                      coco.annotations[a].image_id = key })
                        = Len(DictGet(annotations, key).bboxes)

\* An image without boxes but with a keypoint record, next to one with boxes.
C5_Witness ==
    /\ Built
    /\ \E m, n \in 1..Len(images) :
          /\ Len(DictGet(annotations, images[m].key).bboxes) = 0
          /\ Len(DictGet(annotations, images[m].key).keypoints) > 0
          /\ Len(DictGet(annotations, images[n].key).bboxes) > 0
    /\ Len(coco.images) = 2

(***************************************************************************)
(* C6 as stated.  When the input has one of the four error kinds (path not *)
(* a file; malformed XML, no labels element or non-integer image id; a     *)
(* keypoint with an unknown label; a keypoint whose point-string does not  *)
(* give two numbers) no output file is written.                            *)
(***************************************************************************)
InputHasError ==
    \/ ~xml.isfile
    \/ ~xml.wellformed
    \/ ~xml.has_labels
    \/ \E i \in 1..Len(xml.images) :
          \/ ~IsNumeral(xml.images[i].attrib.id)
          \/ \E j \in 1..Len(xml.images[i].points) :
                \/ ~KnownLabel(xml.images[i].points[j])
                \/ ~HasXY(xml.images[i].points[j])

C6_NoOutputOnError ==
    /\ Len(out_file) <= 1
    /\ out_file # <<>> => pc = "written"
    /\ InputHasError => out_file = <<>>

(***************************************************************************)
(* C7 as stated.  Once construct_coco_keypoints has run on data holding a  *)
(* keypoint record with a label outside the ten names, it has failed with  *)
(* the lookup failure, wherever the keypoint lies and however many boxes   *)
(* its image has; on data without such a record and with two-number        *)
(* point-strings it has not failed.                                        *)
(***************************************************************************)
AllKeypointRecords ==
    UNION { Range(annotations[m].val.keypoints) : m \in 1..Len(annotations) }

C7_UnknownLabelFails ==
    AfterConstruct =>
        /\ ((\E kp \in AllKeypointRecords : ~KnownLabel(kp))
             /\ (\A kp \in AllKeypointRecords : TwoNumbers(kp)))
              => (pc = "crashed" /\ exc.kind = "ValueError")
        /\ ((\A kp \in AllKeypointRecords : KnownLabel(kp) /\ TwoNumbers(kp)))
              => pc # "crashed"

(***************************************************************************)
(* C8.  Every triple of every annotation is (0, 0, 0) or the (x, y, v) of  *)
(* a keypoint record of the image with that label, v being 1 when the      *)
(* record's occlusion flag is "1" and 2 otherwise; a triple with v = 0 is  *)
(* the all-zero default.                                                   *)
(***************************************************************************)
C8_VisibilityOneOrTwo ==
    Built =>
        \A k \in 1..NumPaired :
            \A i \in 1..Len(keypoint_labels) :
                LET t == Slot(coco.annotations[k], i)
                    kps == Visited[k].keypoints
                IN  /\ Len(t) = 3
                    /\ t[3] \in {0, 1, 2}
                    /\ t[3] = 0 => t = <<0, 0, 0>>
                    /\ t[3] # 0 =>
                          \E j \in 1..Len(kps) :
                              /\ kps[j].label = keypoint_labels[i]
                              /\ HasXY(kps[j])
                              /\ t[1] = X(kps[j]) /\ t[2] = Y(kps[j])
                              /\ (kps[j].occluded = "1" => t[3] = 1)
                              /\ (kps[j].occluded # "1" => t[3] = 2)

\* One annotation holds a triple written from an occluded record and one
\* written from a visible record.
C8_Witness ==
    /\ Built
    /\ \E k \in 1..NumPaired :
          \E i, j \in 1..Len(keypoint_labels) :
              /\ Slot(coco.annotations[k], i)[3] = 1
              /\ Slot(coco.annotations[k], j)[3] = 2

(***************************************************************************)
(* C9.  For any sequence of image elements, ids repeated or not: the ids   *)
(* of the images entries are pairwise distinct, every annotation's         *)
(* image_id is the id of an images entry, and the box and every written    *)
(* keypoint of an annotation come from one image element, the last one     *)
(* carrying that id.                                                       *)
(***************************************************************************)
LastElement(id) ==
    xml.images[SetMax({ i \in 1..Len(xml.images) : PyInt(xml.images[i].attrib.id).val = id })]

C9_ImageIdJoinsOneElement ==
    Built =>
        /\ \A m, n \in 1..Len(coco.images) :
              coco.images[m].id = coco.images[n].id => m = n
        /\ \A a \in 1..Len(coco.annotations) :
              LET ann == coco.annotations[a]
              IN  /\ \E m \in 1..Len(coco.images) : coco.images[m].id = ann.image_id
                  /\ \E i \in 1..Len(xml.images) :
                        PyInt(xml.images[i].attrib.id).val = ann.image_id
                  /\ LET el == LastElement(ann.image_id)
                     IN  /\ \E b \in 1..Len(el.boxes) :
                               /\ ann.bbox[1] = Num(el.boxes[b].xtl)
                               /\ ann.bbox[2] = Num(el.boxes[b].ytl)
                         /\ \A i \in 1..Len(keypoint_labels) :
                               Slot(ann, i) # <<0, 0, 0>> =>
                                  \E j \in 1..Len(el.points) :
                                      /\ el.points[j].label = keypoint_labels[i]
                                      /\ HasXY(el.points[j])
                                      /\ Slot(ann, i) = TripleOf(el.points[j])

\* Two elements with one id and different keypoints, and a written keypoint.
C9_Witness ==
    /\ Built
    /\ \E i, j \in 1..Len(xml.images) :
          /\ i < j
          /\ xml.images[i].attrib.id = xml.images[j].attrib.id
          /\ xml.images[i].points # xml.images[j].points
          /\ Len(xml.images[i].boxes) > 0
    /\ \E a \in 1..Len(coco.annotations) :
          Slot(coco.annotations[a], 1) # <<0, 0, 0>>

(***************************************************************************)
(* C10 as stated.  In a returned document with at least one annotation,    *)
(* built from a label list in which the recognized class name occurs,      *)
(* every annotation's category_id is the id of a record of categories.     *)
(***************************************************************************)
C10_CategoryIdResolves ==
    (Built /\ Len(coco.annotations) > 0 /\ "Forklift" \in Range(labels)) =>
        \A a \in 1..Len(coco.annotations) :
            \E c \in 1..Len(coco.categories) :
                coco.categories[c].id = coco.annotations[a].category_id
====
